---- MODULE Spec2Model ----
(***************************************************************************)
(* atmol: a reactive dependency graph of particles (atoms, molecules,      *)
(* waves), the get / peek / set operators and the sync and batching wave   *)
(* schedulers.                                                             *)
(*                                                                         *)
(* Every public call (set, get, peek, wave, the stop function, a quantum   *)
(* pair's writer, one microtask) is one action.  JavaScript runs such a    *)
(* call to completion, nested notifications, recomputations and effects    *)
(* included, so an action threads a record `st` of the whole program       *)
(* state through operators that follow the call tree of the source.        *)
(***************************************************************************)
EXTENDS Integers, Sequences, FiniteSets, TLC

(* ------------------------------ bounds -------------------------------- *)

\* user writes store values 0..MaxVal
MaxVal == 2
\* at most MaxWaves calls of wave() in one behaviour
MaxWaves == 2
\* at most MaxCalls calls of a reaction's action in one behaviour
MaxCalls == 2
\* at most MaxObservers observers of a reaction at a time
MaxObservers == 1
\* at most MaxSubscriptions calls of Observable.subscribe in one behaviour
MaxSubscriptions == 1
\* a subscriber function makes at most MaxSync calls before it returns, and an
\* observer is handed at most MaxSync values
MaxSync == 2

(* --------------------------- the program ------------------------------ *)

\* `undefined` (a molecule's cache before its first computation, readSym of a wave)
Undefined == -1
\* a deleted entry of a Set that an iteration may still be walking over
Hole == "hole"
NoParticle == "none"

\* `null`
Null == -2

\* the particles createReaction builds (reaction.ts:22-27); its trigger is "t"
ReactionAtoms == {"observerCount"}
ReactionQuanta == {"state", "result", "error"}
\* the values of a reaction's state particle
Idle == 0
Pending == 1
Success == 2
Failure == 3

\* the trigger t is a two-valued atom, like atom<'foo' | 'bar'>('foo') of the
\* test 'resction in react components': 0 is 'foo', 1 is 'bar'
TriggerValues == {0, 1}

Atoms == {"a", "b", "c", "t"} \cup ReactionAtoms
\* the atoms that code outside the waves writes; b and c are written by effects
UserAtoms == {"a"}
\* the particles that code outside the waves reads
UserReads == {"mA", "mB"}
\* the read-only particle of a quantum pair; the writer of q is called by
\* code outside the waves
UserQuanta == {"q"}
Quanta == UserQuanta \cup ReactionQuanta
\* the synthetic atom built by synth() over the external store
Synths == {"s"}
Mols == {"mA", "mB", "mC", "mT", "mS", "mP", "mD"}
SyncWaves == {"w1", "w2", "w3", "w4", "wP", "wX", "rI", "wS", "wM", "wN", "wK",
              "wC", "wD", "wB"}
AsyncWaves == {"wA", "wT", "rM", "wY"}
Waves == SyncWaves \cup AsyncWaves
Readables == Atoms \cup Quanta \cup Mols \cup Synths
Particles == Readables \cup Waves

Values == 0..MaxVal

\* compute functions of the molecules:
\* mA = floor(get(a) / 2), mB = get(mA) + 1, mC = get(a) + get(b),
\* mT = get(a), except that it throws when get(a) is 2,
\* mS = get(s) * 2 (the molecule of the test 'synthetic atoms: get/set'),
\* mP = get(a) + 1, mD = get(mA) + get(mP) (a diamond over the atom a)
Factory ==
  [mA |-> [reads |-> <<"a">>, fn |-> "half"],
   mB |-> [reads |-> <<"mA">>, fn |-> "plus1"],
   mC |-> [reads |-> <<"a", "b">>, fn |-> "sum"],
   mT |-> [reads |-> <<"a">>, fn |-> "not2"],
   mS |-> [reads |-> <<"s">>, fn |-> "double"],
   mP |-> [reads |-> <<"a">>, fn |-> "plus1"],
   mD |-> [reads |-> <<"mA", "mP">>, fn |-> "sum"]]

Compute(fn, args) ==
  CASE fn = "half" -> args[1] \div 2
    [] fn = "plus1" -> args[1] + 1
    [] fn = "sum" -> args[1] + args[2]
    [] fn = "not2" -> args[1]
    [] fn = "double" -> args[1] * 2

\* the inputs on which a compute function throws instead of returning
Throws(fn, args) == fn = "not2" /\ args[1] = 2

\* effect bodies of the waves, as straight-line programs over one local `acc`:
\*   get p / peek p : acc = get(p) / peek(p)
\*   set p k TRUE   : set(p, acc + k)      set p k FALSE : set(p, k)
StGet(p) == [op |-> "get", p |-> p, k |-> 0, rel |-> FALSE]
StPeek(p) == [op |-> "peek", p |-> p, k |-> 0, rel |-> FALSE]
StSet(p, k, rel) == [op |-> "set", p |-> p, k |-> k, rel |-> rel]
\*   m              : m(acc), a mock that records its argument
StMock == [op |-> "m", p |-> "none", k |-> 0, rel |-> FALSE]
\*   stop w         : the stop function of the wave w (a no-op before wave(w))
StStop(w) == [op |-> "stop", p |-> w, k |-> 0, rel |-> FALSE]
\*   write q k      : the writer of the quantum pair q called with k
StWrite(q, k) == [op |-> "write", p |-> q, k |-> k, rel |-> FALSE]
\*   capture        : const currentController = ctrl
StCapture == [op |-> "capture", p |-> "none", k |-> 0, rel |-> FALSE]
\*   unless         : if (!acc) return
StUnless == [op |-> "unless", p |-> "none", k |-> 0, rel |-> FALSE]
\*   switch         : switch (acc) { case "idle": .. } of reaction.ts:38-74
StSwitch == [op |-> "switch", p |-> "none", k |-> 0, rel |-> FALSE]

Effect ==
  [w1 |-> <<StGet("mB"), StMock>>,
   w2 |-> <<StGet("a")>>,
   w3 |-> <<StGet("a"), StGet("q")>>,
   w4 |-> <<StGet("mC")>>,
   wP |-> <<StPeek("a"), StSet("b", 1, TRUE)>>,
   wX |-> <<StGet("mT"), StMock>>,
   wS |-> <<StGet("s"), StMock>>,
   wN |-> <<StGet("mB"), StGet("b"), StPeek("c")>>,
   wK |-> <<StGet("a"), StStop("w2")>>,
   wC |-> <<StGet("a"), StUnless, StGet("b"), StMock>>,
   wD |-> <<StGet("mD"), StMock>>,
   wB |-> <<StGet("a"), StGet("mP"), StMock>>,
   wM |-> <<StGet("mS"), StMock>>,
   wA |-> <<StGet("a")>>,
   wY |-> <<StGet("mT"), StMock>>,
   rI |-> <<StGet("t"), StWrite("state", Idle)>>,
   rM |-> <<StCapture, StGet("observerCount"), StUnless, StGet("state"), StSwitch>>,
   wT |-> <<StGet("a"), StSet("b", 1, TRUE), StGet("b"), StSet("c", 1, TRUE),
            StSet("a", 1, FALSE)>>]

\* the particles the effect of w reads with get
GetsOf(w) == {Effect[w][i].p : i \in {j \in DOMAIN Effect[w] : Effect[w][j].op = "get"}}
\* the particles the compute function of m reads with get
ReadsOf(m) == {Factory[m].reads[i] : i \in DOMAIN Factory[m].reads}
\* the particles the effect of w reads with peek
PeeksOf(w) == {Effect[w][i].p : i \in {j \in DOMAIN Effect[w] : Effect[w][j].op = "peek"}}
\* the waves whose effect reads with peek only
PeekOnly == {w \in Waves : GetsOf(w) = {}}

\* a Writer<T>: a value, or an updater applied to the current value
ValWriter(v) == [kind |-> "val", v |-> v, fn |-> "none"]
FnWriter(f) == [kind |-> "fn", v |-> 0, fn |-> f]
Updaters == {"succ", "keep"}
Writers == {ValWriter(v) : v \in Values} \cup {FnWriter(f) : f \in Updaters}

ApplyUpdater(f, cur) ==
  CASE f = "succ" -> (cur + 1) % (MaxVal + 1)
    [] f = "keep" -> cur
    [] f = "boom" -> cur + 1

\* the updater "boom" throws instead of returning
UpdaterThrows(f, cur) == f = "boom"

(* ------------------------------ state --------------------------------- *)

VARIABLES
  value,          \* atom.ts / quantum-pair.ts: `let value`
  isDirty,        \* molecule: `let isDirty`
  cachedValue,    \* molecule: `let cachedValue`
  dependents,     \* graph.ts DEPENDENCY_TO_DEPENDENTS (insertion-ordered Sets)
  dependencies,   \* graph.ts DEPENDENT_TO_DEPENDENCIES
  CONTEXT_STACK,  \* graph.ts CONTEXT_STACK
  hadInitialRun,  \* AsyncWaveScheduler.#hadInitialRun
  pendingWaves,   \* AsyncWaveScheduler.#pendingWaves (insertion-ordered Set)
  isRunning,      \* AsyncWaveScheduler.#isRunning
  microtasks,     \* the host's microtask queue
  ctrl,           \* reaction.ts:28 `let ctrl` (0: null, n: the n-th AbortController)
  aborted,        \* the AbortControllers whose signal is aborted
  promises,       \* the promises returned by the calls of the reaction's action
  keepPrevious,   \* the option the reaction was created with
  storeMode,      \* the external store: "none" before synth() is called, then
                  \* "change" (its sendUpdate calls the subscribers when the
                  \* value changed) or "always" (on every call)
  store,          \* the external store's `let value`
  subscribers,    \* the external store's `subscribers`
  unsubscribeFn,  \* synthetic-atom.ts:23 `let unsubscribe` (FALSE: null)
  held,           \* the snapshot the synthetic atom last returned or was told of
  subs,           \* the subscriptions made with Observable.subscribe
  created,        \* waves constructed so far
  stopped,        \* waves whose stop function has been called
  seen,           \* per wave: the argument of the last call of its mock
  last,           \* the public call made by the last action
  thrown,         \* whether that call threw to its caller
  everThrown,     \* whether any call so far threw to its caller
  trace           \* what the last action did, in order

vars == <<value, isDirty, cachedValue, dependents, dependencies, CONTEXT_STACK,
          hadInitialRun, pendingWaves, isRunning, microtasks, ctrl, aborted,
          promises, keepPrevious, storeMode, store, subscribers, unsubscribeFn,
          held, subs, created, stopped,
          seen, last, thrown, everThrown, trace>>

(* ------------------- insertion-ordered Set (ES2015) ------------------- *)
\* A Set iterates in insertion order over the entries present when the
\* iterator reaches them: an entry deleted before it is reached is skipped, an
\* entry added during the iteration is visited.  A sequence with holes and an
\* index gives exactly this; holes are dropped when no iteration is running.

SetHas(s, x) == \E i \in DOMAIN s : s[i] = x
SetAdd(s, x) == IF SetHas(s, x) THEN s ELSE Append(s, x)
SetDelete(s, x) == [i \in DOMAIN s |-> IF s[i] = x THEN Hole ELSE s[i]]
SetSize(s) == Cardinality({i \in DOMAIN s : s[i] # Hole})
SetElems(s) == {s[i] : i \in DOMAIN s} \ {Hole}
IsEntry(x) == x # Hole
Compact(s) == SelectSeq(s, IsEntry)

(* ------------------------------ trace --------------------------------- *)

\* ev = "write":   p is written, old its value, cand the candidate value,
\*                 deps the dependents of p at that moment
\*      "notify":  notifySym of p is invoked by `by`; wid is the trace index of
\*                 the write whose pass it belongs to (0: a molecule's pass)
\*      "compute": the factory of molecule p runs
\*      "run":     the effect of wave p runs
\*      "mock":    the effect of wave p calls its mock with cand
\*      "pending": wave p is added to #pendingWaves
\*      "queue":   a flush microtask is queued
\*      "pass":    a pass of the flush starts, deps its currentlyPending
\*      "throw":   the compute function of molecule p, or the updater given
\*                 to the write of atom p, throws
\*      "typeError": set is called on p, which has no writeSym
\*      "subscribe" / "unsubscribe": the store's subscribe function / the
\*                 unsubscribe function it returned is called by p
\*      "send":    the store's sendUpdate is called by p with cand
\*      "listener": the store calls the listener of p; old is the snapshot p
\*                 last held, cand the store's snapshot, deps p's dependents
Ev(ev, p, by, wid, old, cand, deps) ==
  [ev |-> ev, p |-> p, by |-> by, wid |-> wid, old |-> old, cand |-> cand,
   deps |-> deps]
Event(ev, p) == Ev(ev, p, NoParticle, 0, Undefined, Undefined, {})
Log(st, e) == [st EXCEPT !.trace = Append(@, e)]

(* --------------------------- graph.ts --------------------------------- *)

\* graph.ts:44-46
getDependents(st, dependency) == st.dependents[dependency]

\* mutant: the edge is recorded in the dependent's map only
markDependencyOneWay(st, dependency) ==
  IF st.CONTEXT_STACK = <<>> THEN st
  ELSE LET dependent == st.CONTEXT_STACK[Len(st.CONTEXT_STACK)] IN
       [st EXCEPT !.dependencies[dependent] = @ \cup {dependency}]

\* mutant: the edge goes to the bottom of the stack, the outermost computation
markDependencyBottom(st, dependency) ==
  IF st.CONTEXT_STACK = <<>> THEN st
  ELSE LET dependent == st.CONTEXT_STACK[1] IN
       [st EXCEPT !.dependencies[dependent] = @ \cup {dependency},
                  !.dependents[dependency] = SetAdd(@, dependent)]

\* graph.ts:22-33; the dependent is the top of CONTEXT_STACK, if any
markDependency(st, dependency) ==
  IF st.CONTEXT_STACK = <<>> THEN st
  ELSE LET dependent == st.CONTEXT_STACK[Len(st.CONTEXT_STACK)] IN
       [st EXCEPT !.dependencies[dependent] = @ \cup {dependency},
                  !.dependents[dependency] = SetAdd(@, dependent)]

\* mutant: the dependent forgets its dependencies, they keep it
releaseDependenciesOneWay(st, particle) ==
  [st EXCEPT !.dependencies[particle] = {}]

\* graph.ts:35-42
releaseDependencies(st, particle) ==
  [st EXCEPT
     !.dependents = [d \in Particles |->
                       IF d \in st.dependencies[particle]
                       THEN SetDelete(st.dependents[d], particle)
                       ELSE st.dependents[d]],
     !.dependencies[particle] = {}]

\* graph.ts:13-20, the two halves of runInContext around fn()
pushContext(st, particle) == [st EXCEPT !.CONTEXT_STACK = Append(@, particle)]

\* mutant: the pop is skipped when fn throws (no finally)
popContextUnlessThrown(st) ==
  IF st.thrown THEN st
  ELSE [st EXCEPT !.CONTEXT_STACK = SubSeq(@, 1, Len(@) - 1)]

\* graph.ts:17-19, the finally of runInContext
popContext(st) ==
  [st EXCEPT !.CONTEXT_STACK = SubSeq(@, 1, Len(@) - 1)]

(* ----------------- the comparisons that gate propagation --------------- *)

\* mutant: the write notifies without comparing
atomChangedAlways(nextValue, cur) == TRUE

\* base/atom.ts:28  `nextValue !== value`
atomChanged(nextValue, cur) == nextValue # cur

\* quantum-pair.ts:13  `nextValue !== value`
quantumChanged(nextValue, cur) == nextValue # cur

\* mutant: a molecule never propagates
moleculeChangedNever(newValue, oldValue) == FALSE

\* mutant: a molecule propagates without comparing
moleculeChangedAlways(newValue, oldValue) == TRUE

\* atom.ts:111  `newValue !== oldValue`
moleculeChanged(newValue, oldValue) == newValue # oldValue

\* mutant: a molecule recomputes on every notify
noDependentsNever(deps) == FALSE

\* atom.ts:108  `deps.size === 0`
noDependents(deps) == SetSize(deps) = 0

\* mutant: the first schedule call defers the effect like the later ones
isInitialRunNever(st, w) == FALSE

\* ops.ts:46  `!this.#hadInitialRun.has(wave)`
isInitialRun(st, w) == w \notin st.hadInitialRun

(* ------------------ particles, operators, schedulers ------------------- *)

RECURSIVE read(_, _), get(_, _), runFactory(_, _, _, _), notify(_, _, _, _),
          forEachNotify(_, _, _, _), runEffect(_, _), exec(_, _, _, _),
          atomWrite(_, _, _), quantumWrite(_, _, _)

\* mutant: peek marks the dependency like get
peekMarking(st, p) == read(markDependency(st, p), p)

\* base/ops.ts:22-24
peek(st, p) == read(st, p)

\* base/ops.ts:11-14
get(st, p) == peek(markDependency(st, p), p)

\* the factory of molecule m after its i-th get, which left the state s1:
\* a get that threw ends the factory, else its value is the i-th argument
factoryGot(s1, m, i, args) ==
  IF s1.thrown THEN s1
  ELSE runFactory(s1, m, i + 1, Append(args, s1.ret))

\* the factory of molecule m: its gets, in order, then the computed value
runFactory(st, m, i, args) ==
  IF i > Len(Factory[m].reads)
  THEN IF Throws(Factory[m].fn, args)
       THEN Log([st EXCEPT !.thrown = TRUE], Event("throw", m))
       ELSE [st EXCEPT !.ret = Compute(Factory[m].fn, args)]
  ELSE factoryGot(get(st, Factory[m].reads[i]), m, i, args)

\* mutant: a molecule recomputes on every read
moleculeReadAlways(st, m) ==
  LET s0 == Log(pushContext(st, m), Event("compute", m))
      s1 == runFactory(s0, m, 1, <<>>)
      s2 == popContext(s1)
  IN IF s1.thrown THEN s2
     ELSE [s2 EXCEPT !.cachedValue[m] = s1.ret, !.isDirty[m] = FALSE, !.ret = s1.ret]

\* mutant: the dirty flag is cleared before the compute function runs
moleculeReadClearFirst(st, m) ==
  IF ~st.isDirty[m] THEN [st EXCEPT !.ret = st.cachedValue[m]]
  ELSE LET s0 == Log(pushContext([st EXCEPT !.isDirty[m] = FALSE], m),
                     Event("compute", m))
           s1 == runFactory(s0, m, 1, <<>>)
           s2 == popContext(s1)
       IN IF s1.thrown THEN s2
          ELSE [s2 EXCEPT !.cachedValue[m] = s1.ret, !.ret = s1.ret]

\* atom.ts:117-118, `cachedValue = runInContext(...); isDirty = false` once the
\* factory left the state s1: the finally pops the context, and the two
\* assignments are skipped when the factory threw
moleculeComputed(s1, m) ==
  LET s2 == popContext(s1)
  IN IF s1.thrown THEN s2
     ELSE [s2 EXCEPT !.cachedValue[m] = s1.ret, !.isDirty[m] = FALSE,
                     !.ret = s1.ret]

\* atom.ts:115-120, a molecule's readSym
moleculeRead(st, m) ==
  IF ~st.isDirty[m] THEN [st EXCEPT !.ret = st.cachedValue[m]]
  ELSE moleculeComputed(runFactory(Log(pushContext(st, m), Event("compute", m)),
                                   m, 1, <<>>), m)

\* the external store of base/atmol.test.ts:123-146: subscribe, the function
\* it returns, and getSnapshot
storeSubscribe(st, a) ==
  Log([st EXCEPT !.subscribers = @ \cup {a}], Event("subscribe", a))
storeUnsubscribe(st, a) ==
  Log([st EXCEPT !.subscribers = @ \ {a}], Event("unsubscribe", a))
getSnapshot(st) == st.store

\* synthetic-atom.ts:25-28
reSubscribe(st, a) ==
  LET s1 == IF st.unsubscribe[a] THEN storeUnsubscribe(st, a) ELSE st IN
  [storeSubscribe(s1, a) EXCEPT !.unsubscribe[a] = TRUE]

\* mutant: a read never subscribes again
synthReadNoResubscribe(st, a) ==
  [st EXCEPT !.ret = getSnapshot(st), !.held[a] = getSnapshot(st)]

\* synthetic-atom.ts:31-36, a synthetic atom's readSym
synthRead(st, a) ==
  LET s1 == IF SetSize(getDependents(st, a)) # 0 /\ ~st.unsubscribe[a]
            THEN reSubscribe(st, a) ELSE st
  IN [s1 EXCEPT !.ret = getSnapshot(s1), !.held[a] = getSnapshot(s1)]

\* readSym of each kind of particle:
\* base/atom.ts:25, quantum-pair.ts:8, atom.ts:115, wave.ts:30
read(st, p) ==
  IF p \in Atoms \cup Quanta THEN [st EXCEPT !.ret = st.value[p]]
  ELSE IF p \in Mols THEN moleculeRead(st, p)
  ELSE IF p \in Synths THEN synthRead(st, p)
  ELSE [st EXCEPT !.ret = Undefined]

\* mutant: the pass stops after the first dependent
forEachNotifyFirst(st, by, i, wid) ==
  IF i > Len(st.dependents[by]) THEN st
  ELSE LET d == st.dependents[by][i] IN
       IF d = Hole THEN forEachNotify(st, by, i + 1, wid)
       ELSE notify(st, d, by, wid)

\* `for (const p of deps) p[notifySym]()` / `deps.forEach(...)` over the live
\* Set of `by`'s dependents, from index i on; wid is the trace index of the
\* write that started the pass (0 for a molecule's propagation); a notifySym
\* that threw ends the loop
forEachNotify(st, by, i, wid) ==
  IF i > Len(st.dependents[by]) \/ st.thrown THEN st
  ELSE LET d == st.dependents[by][i] IN
       IF d = Hole THEN forEachNotify(st, by, i + 1, wid)
       ELSE forEachNotify(notify(st, d, by, wid), by, i + 1, wid)

\* atom.ts:110-113, after `const newValue = get(mol)` left the state s2
moleculePropagate(s2, m, oldValue) ==
  IF s2.thrown THEN s2
  ELSE IF moleculeChanged(s2.ret, oldValue) THEN forEachNotify(s2, m, 1, 0)
  ELSE s2

\* mutant: a molecule without dependents is not marked dirty
moleculeNotifyKeepClean(st, m) ==
  IF noDependents(getDependents(st, m)) THEN st
  ELSE moleculePropagate(get([st EXCEPT !.isDirty[m] = TRUE], m), m,
                         st.cachedValue[m])

\* atom.ts:105-114, a molecule's notifySym
moleculeNotify(st, m) ==
  LET s1 == [st EXCEPT !.isDirty[m] = TRUE] IN
  IF noDependents(getDependents(s1, m)) THEN s1
  ELSE moleculePropagate(get(s1, m), m, s1.cachedValue[m])

\* a queued microtask: the flush of the batching scheduler, or (n > 0) the
\* settlement callbacks of the n-th promise
FlushTask == 0

\* base/wave/sync.ts:19-21
syncSchedule(st, w) == runEffect(st, w)

\* mutant: #pendingWaves is a list, a wave is queued once per notification
asyncScheduleNoDedup(st, w) ==
  IF isInitialRun(st, w)
  THEN runEffect([st EXCEPT !.hadInitialRun = @ \cup {w}], w)
  ELSE LET s1 == Log([st EXCEPT !.pendingWaves = Append(@, w)],
                     Event("pending", w)) IN
       IF ~s1.isRunning
       THEN Log([s1 EXCEPT !.isRunning = TRUE, !.microtasks = Append(@, FlushTask)],
                Event("queue", w))
       ELSE s1

\* ops.ts:45-64; the queued microtask is asyncFlush
asyncSchedule(st, w) ==
  IF isInitialRun(st, w)
  THEN runEffect([st EXCEPT !.hadInitialRun = @ \cup {w}], w)
  ELSE LET s1 == Log([st EXCEPT !.pendingWaves = SetAdd(@, w)],
                     Event("pending", w)) IN
       IF ~s1.isRunning
       THEN Log([s1 EXCEPT !.isRunning = TRUE, !.microtasks = Append(@, FlushTask)],
                Event("queue", w))
       ELSE s1

\* wave.ts:31-33, a wave's notifySym
waveNotify(st, w) ==
  IF w \in SyncWaves THEN syncSchedule(st, w) ELSE asyncSchedule(st, w)

\* notifySym of each kind of particle (base/atom.ts:35 and quantum-pair.ts:9 do nothing)
notify(st, p, by, wid) ==
  LET s0 == Log(st, Ev("notify", p, by, wid, Undefined, Undefined, {})) IN
  IF p \in Mols THEN moleculeNotify(s0, p)
  ELSE IF p \in Waves THEN waveNotify(s0, p)
  ELSE s0

\* mutant: the dependents are notified before the updater is evaluated
atomWriteNotifyFirst(st, a, f) ==
  LET n0 == forEachNotify(st, a, 1, 0) IN
  IF n0.thrown THEN n0
  ELSE IF f.kind = "fn" /\ UpdaterThrows(f.fn, n0.value[a])
  THEN Log([n0 EXCEPT !.thrown = TRUE], Event("throw", a))
  ELSE
  LET nextValue == IF f.kind = "fn" THEN ApplyUpdater(f.fn, n0.value[a]) ELSE f.v
      s0 == Log(n0, Ev("write", a, NoParticle, 0, n0.value[a], nextValue,
                      SetElems(n0.dependents[a])))
  IN IF atomChanged(nextValue, n0.value[a])
     THEN [s0 EXCEPT !.value[a] = nextValue]
     ELSE s0

\* base/atom.ts:26-34, an atom's writeSym
atomWrite(st, a, f) ==
  IF f.kind = "fn" /\ UpdaterThrows(f.fn, st.value[a])
  THEN Log([st EXCEPT !.thrown = TRUE], Event("throw", a))
  ELSE
  LET nextValue == IF f.kind = "fn" THEN ApplyUpdater(f.fn, st.value[a]) ELSE f.v
      s0 == Log(st, Ev("write", a, NoParticle, 0, st.value[a], nextValue,
                      SetElems(st.dependents[a])))
  IN IF atomChanged(nextValue, st.value[a])
     THEN forEachNotify([s0 EXCEPT !.value[a] = nextValue], a, 1, Len(s0.trace))
     ELSE s0

\* mutant: the listener keeps the subscription of an atom without dependents
synthNotifyKeepSubscription(st, a) ==
  LET s0 == Log([st EXCEPT !.held[a] = getSnapshot(st)],
                Ev("listener", a, NoParticle, 0, st.held[a], getSnapshot(st),
                   SetElems(getDependents(st, a))))
  IN forEachNotify(s0, a, 1, Len(s0.trace))

\* synthetic-atom.ts:49-58, the listener `notify` given to subscribe
synthNotify(st, a) ==
  LET deps == getDependents(st, a)
      s0 == Log([st EXCEPT !.held[a] = getSnapshot(st)],
                Ev("listener", a, NoParticle, 0, st.held[a], getSnapshot(st),
                   SetElems(deps)))
      s1 == IF SetSize(deps) = 0
            THEN [(IF s0.unsubscribe[a] THEN storeUnsubscribe(s0, a) ELSE s0)
                    EXCEPT !.unsubscribe[a] = FALSE]
            ELSE s0
  IN forEachNotify(s1, a, 1, Len(s0.trace))

\* base/atmol.test.ts:135-144, sendUpdate of the external store; a store in
\* mode "always" calls its subscribers whether the value changed or not
storeSendUpdate(st, newValue) ==
  LET changed == st.store # newValue
      s1 == [st EXCEPT !.store = newValue]
  IN IF (changed \/ st.storeMode = "always") /\ s1.subscribers # {}
     THEN synthNotify(s1, CHOOSE a \in s1.subscribers : TRUE)
     ELSE s1

\* mutant: the write notifies the atom's dependents itself
synthWriteSelfNotify(st, a, f) ==
  LET nextValue == IF f.kind = "fn" THEN ApplyUpdater(f.fn, getSnapshot(st)) ELSE f.v
      s1 == IF ~st.unsubscribe[a] THEN reSubscribe(st, a) ELSE st
      s2 == storeSendUpdate(Log(s1, Ev("send", a, NoParticle, 0, getSnapshot(st),
                                       nextValue, {})), nextValue)
  IN forEachNotify(s2, a, 1, 0)

\* synthetic-atom.ts:37-45, a synthetic atom's writeSym
synthWrite(st, a, f) ==
  IF f.kind = "fn" /\ UpdaterThrows(f.fn, getSnapshot(st))
  THEN Log([st EXCEPT !.thrown = TRUE], Event("throw", a))
  ELSE
  LET nextValue == IF f.kind = "fn" THEN ApplyUpdater(f.fn, getSnapshot(st)) ELSE f.v
      s1 == IF ~st.unsubscribe[a] THEN reSubscribe(st, a) ELSE st
  IN storeSendUpdate(Log(s1, Ev("send", a, NoParticle, 0, getSnapshot(st),
                                nextValue, {})), nextValue)

\* mutant: the read-only particle of a quantum pair accepts a set
setAnyParticle(st, a, f) ==
  IF a \in Quanta
  THEN [st EXCEPT !.value[a] = IF f.kind = "fn" THEN ApplyUpdater(f.fn, @) ELSE f.v]
  ELSE atomWrite(st, a, f)

\* base/ops.ts:32-34, `atom[writeSym](value)`; the particle of a quantum pair
\* (quantum-pair.ts:7-10) has no writeSym property, the call is a TypeError
set(st, a, f) ==
  IF a \in Quanta THEN Log([st EXCEPT !.thrown = TRUE], Event("typeError", a))
  ELSE IF a \in Synths THEN synthWrite(st, a, f)
  ELSE atomWrite(st, a, f)

\* quantum-pair.ts:12-17, the writer closure of the pair
quantumWrite(st, q, nextValue) ==
  LET s0 == Log(st, Ev("write", q, NoParticle, 0, st.value[q], nextValue,
                           SetElems(st.dependents[q]))) IN
  IF quantumChanged(nextValue, st.value[q])
  THEN forEachNotify([s0 EXCEPT !.value[q] = nextValue], q, 1, Len(s0.trace))
  ELSE s0

\* the action of the reaction, like the one of the test 'reaction (error)':
\* it rejects for the input 1 and resolves with its input otherwise
Rejects(input) == input = 1
ResultOf(input) == input
ErrorOf(input) == input + 10

\* a promise returned by action(input); ctl is the currentController its
\* callbacks close over, superseded whether the trigger changed since the call
Promise(input, ctl) ==
  [input |-> input, ctl |-> ctl, status |-> "running", superseded |-> FALSE]

\* if (ctrl) ctrl.abort(); ctrl = new AbortController()   (reaction.ts:40-43)
StAbort == [op |-> "abort", p |-> "none", k |-> 0, rel |-> FALSE]
\* action(peek(trigger)).then(..)                          (reaction.ts:47-62)
StCall == [op |-> "call", p |-> "none", k |-> 0, rel |-> FALSE]

\* reaction.ts:39-45, case "idle"
idleBranch == <<StAbort, StWrite("state", Pending)>>

\* mutant: the pending branch resets result and error whatever keepPrevious is
pendingBranchAlwaysReset(keep) ==
  <<StCall, StWrite("result", Null), StWrite("error", Null)>>

\* reaction.ts:46-67, case "pending"
pendingBranch(keep) ==
  IF ~keep THEN <<StCall, StWrite("result", Null), StWrite("error", Null)>>
  ELSE <<StCall>>

\* mutant: the reaction does not look at its observer count
isObservedAlways(count) == TRUE

\* reaction.ts:37  `if (!get(observerCount)) return`
isObserved(count) == count # 0

\* reaction.ts:38-74, the branch that the switch on get(state) takes
reactionSwitch(state, keep) ==
  CASE state = Idle -> idleBranch
    [] state = Pending -> pendingBranch(keep)
    [] state = Success -> <<StWrite("error", Null)>>
    [] state = Failure -> <<StWrite("result", Null)>>

\* reaction.ts:48-61, what the callbacks given to then() do for the n-th promise
settled(st, n) ==
  LET pr == st.promises[n] IN
  IF pr.ctl # 0 /\ pr.ctl \in st.aborted THEN <<>>
  ELSE IF pr.status = "resolved"
  THEN <<StWrite("result", ResultOf(pr.input)), StWrite("state", Success)>>
  ELSE <<StWrite("error", ErrorOf(pr.input)), StWrite("state", Failure)>>

\* reaction.ts:40-43
abortAndReplace(st) ==
  LET s1 == IF st.ctrl # 0
            THEN Log([st EXCEPT !.aborted = @ \cup {st.ctrl}], Event("abort", "rM"))
            ELSE st
  IN [s1 EXCEPT !.ctrl = st.ctrl + 1]

\* reaction.ts:47, action(input) once peek(trigger) left the state s1; its
\* promise is pending
actionCalled(s1) ==
  Log([s1 EXCEPT !.promises = Append(@, Promise(s1.ret, s1.currentController))],
      Ev("invoke", "rM", NoParticle, 0, Undefined, s1.ret, {}))

\* reaction.ts:47, the call of the action
callAction(st) == actionCalled(peek(st, "t"))

\* the statements of a branch of the reaction, or of a then() callback, from
\* the i-th on
RECURSIVE steps(_, _, _)
steps(st, prog, i) ==
  IF i > Len(prog) THEN st
  ELSE LET s == prog[i]
           s1 == CASE s.op = "write" -> quantumWrite(st, s.p, s.k)
                   [] s.op = "abort" -> abortAndReplace(st)
                   [] s.op = "call" -> callAction(st)
       IN steps(s1, prog, i + 1)

\* wave.ts:39-41, the returned stop function
unsubscribe(st, w) == releaseDependencies(st, w)

\* the effect body of w after its i-th statement, a get or a peek that left
\* the state s1: the value read is what the next statements work on
execRead(s1, w, i) == exec(s1, w, i + 1, s1.ret)

\* the statements of w's effect body from the i-th on
exec(st, w, i, acc) ==
  IF i > Len(Effect[w]) \/ st.thrown THEN st
  ELSE LET s == Effect[w][i] IN
       IF s.op = "set"
       THEN exec(set(st, s.p, ValWriter(IF s.rel THEN acc + s.k ELSE s.k)), w, i + 1, acc)
       ELSE IF s.op \in {"write", "switch"}
       THEN exec(steps(st, IF s.op = "write" THEN <<s>>
                           ELSE reactionSwitch(acc, st.keepPrevious), 1),
                 w, i + 1, acc)
       ELSE IF s.op = "capture"
       THEN exec([st EXCEPT !.currentController = st.ctrl], w, i + 1, acc)
       ELSE IF s.op = "unless"
       THEN IF ~isObserved(acc) THEN st ELSE exec(st, w, i + 1, acc)
       ELSE IF s.op = "m"
       THEN exec(Log([st EXCEPT !.seen[w] = acc],
                     Ev("mock", w, NoParticle, 0, Undefined, acc, {})),
                 w, i + 1, acc)
       ELSE IF s.op = "stop"
       THEN exec(unsubscribe(st, s.p), w, i + 1, acc)
       ELSE execRead(IF s.op = "get" THEN get(st, s.p) ELSE peek(st, s.p), w, i)

\* wave.ts:35, the runnable registered with the scheduler:
\* () => runInContext(waveParticle, effect)
runEffect(st, w) ==
  LET s0 == Log(pushContext(st, w),
                Event("run", w))
  IN popContext(exec(s0, w, 1, Undefined))

\* wave.ts:25-38: build the particle, register the runnable, first schedule.
\* Both schedulers keep the runnable for good (a WeakMap keyed by the wave), so
\* `waves.get(wave)?.()` finds it for every wave that was constructed.
wave(st, w) ==
  IF w \in SyncWaves THEN syncSchedule(st, w) ELSE asyncSchedule(st, w)

\* ops.ts:57-59, `currentlyPending.forEach(...)` over the array copy
RECURSIVE runPending(_, _, _)
runPending(st, currentlyPending, i) ==
  IF i > Len(currentlyPending) \/ st.thrown THEN st
  ELSE runPending(runEffect(st, currentlyPending[i]), currentlyPending, i + 1)

RECURSIVE asyncFlush(_)

\* mutant: the flush makes one pass and drops what was scheduled meanwhile
asyncFlushOnePass(st) ==
  IF st.thrown THEN st
  ELSE IF Len(st.pendingWaves) = 0 THEN [st EXCEPT !.isRunning = FALSE]
  ELSE LET currentlyPending == st.pendingWaves
           s0 == Log([st EXCEPT !.pendingWaves = <<>>],
                     Ev("pass", NoParticle, NoParticle, 0, Undefined, Undefined,
                        SetElems(currentlyPending)))
           s1 == runPending(s0, currentlyPending, 1)
       IN [s1 EXCEPT !.pendingWaves = <<>>, !.isRunning = FALSE]

\* ops.ts:53-62, the microtask queued by schedule
asyncFlush(st) ==
  IF st.thrown THEN st
  ELSE IF Len(st.pendingWaves) = 0 THEN [st EXCEPT !.isRunning = FALSE]
  ELSE LET currentlyPending == st.pendingWaves
           s0 == Log([st EXCEPT !.pendingWaves = <<>>],
                     Ev("pass", NoParticle, NoParticle, 0, Undefined, Undefined,
                        SetElems(currentlyPending)))
       IN asyncFlush(runPending(s0, currentlyPending, 1))

(* ----------------------------- actions -------------------------------- *)

\* the program state at the start of a public call
Start ==
  [value |-> value, isDirty |-> isDirty, cachedValue |-> cachedValue,
   dependents |-> dependents, dependencies |-> dependencies,
   CONTEXT_STACK |-> CONTEXT_STACK, hadInitialRun |-> hadInitialRun,
   pendingWaves |-> pendingWaves, isRunning |-> isRunning,
   microtasks |-> microtasks, ctrl |-> ctrl, aborted |-> aborted,
   promises |-> promises, keepPrevious |-> keepPrevious,
   storeMode |-> storeMode, store |-> store, subscribers |-> subscribers,
   unsubscribe |-> unsubscribeFn, held |-> held,
   currentController |-> 0, seen |-> seen,
   trace |-> <<>>, ret |-> Undefined, thrown |-> FALSE]

Call(op, p, old, cand) == [op |-> op, p |-> p, old |-> old, cand |-> cand]

\* the state the call leaves behind
Commit(s, call) ==
  /\ value' = s.value
  /\ isDirty' = s.isDirty
  /\ cachedValue' = s.cachedValue
  /\ dependents' = [p \in Particles |-> Compact(s.dependents[p])]
  /\ dependencies' = s.dependencies
  /\ CONTEXT_STACK' = s.CONTEXT_STACK
  /\ hadInitialRun' = s.hadInitialRun
  /\ pendingWaves' = s.pendingWaves
  /\ isRunning' = s.isRunning
  /\ microtasks' = s.microtasks
  /\ ctrl' = s.ctrl
  /\ aborted' = s.aborted
  /\ promises' = s.promises
  /\ keepPrevious' = s.keepPrevious
  /\ storeMode' = s.storeMode
  /\ store' = s.store
  /\ subscribers' = s.subscribers
  /\ unsubscribeFn' = s.unsubscribe
  /\ held' = s.held
  /\ subs' = subs
  /\ seen' = s.seen
  /\ trace' = s.trace
  /\ thrown' = s.thrown
  /\ everThrown' = (everThrown \/ s.thrown)
  /\ last' = call

Candidate(a, f) ==
  IF f.kind = "val" THEN f.v
  ELSE IF UpdaterThrows(f.fn, value[a]) THEN Undefined
  ELSE ApplyUpdater(f.fn, value[a])

\* set(atom, writer) called from outside any molecule or wave
Set(a, f) ==
  /\ Commit(set(Start, a, f), Call("set", a, value[a], Candidate(a, f)))
  /\ UNCHANGED <<created, stopped>>

\* the writer of the quantum pair called by the module that holds it
WriteQuantum(q, v) ==
  /\ Commit(quantumWrite(Start, q, v), Call("write", q, value[q], v))
  /\ UNCHANGED <<created, stopped>>

\* the state a read leaves behind, and the value it returned
CommitRead(s, op, p) == Commit(s, Call(op, p, Undefined, s.ret))

\* get(p) called from outside any molecule or wave
Get(p) ==
  /\ CommitRead(get(Start, p), "get", p)
  /\ UNCHANGED <<created, stopped>>

\* peek(p) called from outside any molecule or wave
Peek(p) ==
  /\ CommitRead(peek(Start, p), "peek", p)
  /\ UNCHANGED <<created, stopped>>

\* wave(effect, scheduler)
Wave(w) ==
  /\ w \notin created
  /\ Cardinality(created) < MaxWaves
  /\ Commit(wave(Start, w), Call("wave", w, Undefined, Undefined))
  /\ created' = created \cup {w}
  /\ UNCHANGED stopped

\* the stop function returned by wave()
Stop(w) ==
  /\ w \in created
  /\ Commit(unsubscribe(Start, w), Call("stop", w, Undefined, Undefined))
  /\ stopped' = stopped \cup {w}
  /\ UNCHANGED created

\* the host runs the next microtask, a flush of the batching scheduler
Microtask ==
  /\ microtasks # <<>>
  /\ Head(microtasks) = FlushTask
  /\ Commit(asyncFlush([Start EXCEPT !.microtasks = Tail(@)]),
            Call("flush", NoParticle, Undefined, Undefined))
  /\ UNCHANGED <<created, stopped>>

\* the host runs the next microtask, the settlement callback of a promise
PromiseCallback ==
  /\ microtasks # <<>>
  /\ Head(microtasks) # FlushTask
  /\ LET n == Head(microtasks) IN
     Commit(steps([Start EXCEPT !.microtasks = Tail(@)], settled(Start, n), 1),
            Call("then", "rM", n, promises[n].input))
  /\ UNCHANGED <<created, stopped>>

\* the promise of the n-th call of the action resolves or rejects; the host
\* queues the callback given to then()
Settle(n) ==
  /\ n \in DOMAIN promises
  /\ promises[n].status = "running"
  /\ Commit([Start EXCEPT !.promises[n].status =
                            IF Rejects(promises[n].input) THEN "rejected"
                            ELSE "resolved",
                          !.microtasks = Append(@, n)],
            Call("settle", "rM", n, promises[n].input))
  /\ UNCHANGED <<created, stopped>>

\* reaction.ts:17-88, createReaction(trigger, action, options)
createReaction(st, autoObserve, keep) ==
  LET s0 == [st EXCEPT !.value =
               [p \in DOMAIN st.value |->
                  CASE p = "observerCount" -> IF autoObserve THEN 1 ELSE 0
                    [] p = "state" -> Idle
                    [] p \in {"result", "error"} -> Null
                    [] OTHER -> st.value[p]],
             !.keepPrevious = keep, !.ctrl = 0]
  IN wave(wave(s0, "rI"), "rM")

CreateReaction(autoObserve, keep) ==
  /\ "rM" \notin created
  /\ Commit(createReaction(Start, autoObserve, keep),
            Call("create", "rM", Undefined, Undefined))
  /\ created' = created \cup {"rI", "rM"}
  /\ UNCHANGED stopped

\* the calls of the action are bounded: a flush starts at most one, and none
\* while the observer count is 0
CanStart == Len(promises) + (IF isRunning THEN 1 ELSE 0) < MaxCalls

\* the trigger changed: the promises of the earlier calls are superseded
Supersede(st, changed) ==
  IF changed
  THEN [st EXCEPT !.promises = [n \in DOMAIN @ |-> [@[n] EXCEPT !.superseded = TRUE]]]
  ELSE st

\* set(trigger, v) called from outside
SetTrigger(v) ==
  /\ "rM" \in created
  /\ CanStart \/ value["observerCount"] = 0
  /\ Commit(Supersede(set(Start, "t", ValWriter(v)), v # value["t"]),
            Call("set", "t", value["t"], v))
  /\ UNCHANGED <<created, stopped>>

\* reaction.ts:82 and 85, `set(observerCount, get(observerCount) + k)` once the
\* get left the state s1
setObserverCount(s1, k) == set(s1, "observerCount", ValWriter(s1.ret + k))

\* reaction.ts:81-83 and 84-86, observe() and unobserve() (k = 1, k = -1)
addObserver(st, k) == setObserverCount(get(st, "observerCount"), k)

Observe ==
  /\ "rM" \in created
  /\ CanStart
  /\ value["observerCount"] < MaxObservers
  /\ Commit(addObserver(Start, 1),
            Call("observe", "rM", value["observerCount"], value["observerCount"] + 1))
  /\ UNCHANGED <<created, stopped>>

\* unobserve(), matching an earlier observe() or autoObserve
Unobserve ==
  /\ "rM" \in created
  /\ CanStart \/ value["observerCount"] = 1
  /\ value["observerCount"] > 0
  /\ Commit(addObserver(Start, -1),
            Call("unobserve", "rM", value["observerCount"], value["observerCount"] - 1))
  /\ UNCHANGED <<created, stopped>>

\* synthetic-atom.ts:18-63, synth(subscribe, getSnapshot, sendUpdate) over a
\* store built like createStore() of base/atmol.test.ts:123
synth(st, a, mode) ==
  reSubscribe([st EXCEPT !.storeMode = mode, !.held[a] = getSnapshot(st)], a)

Synth(a, mode) ==
  /\ storeMode = "none"
  /\ Commit(synth(Start, a, mode), Call("synth", a, Undefined, Undefined))
  /\ UNCHANGED <<created, stopped>>

\* set(a, writer) on the synthetic atom, called from outside any wave
SetSynth(a, f) ==
  /\ storeMode # "none"
  /\ Commit(set(Start, a, f),
            Call("set", a, store,
                 IF f.kind = "fn" THEN ApplyUpdater(f.fn, store) ELSE f.v))
  /\ UNCHANGED <<created, stopped>>

\* store.sendUpdate(v) called by code that shares the external store
StoreSendUpdate(v) ==
  /\ storeMode # "none"
  /\ Commit(storeSendUpdate(Start, v), Call("sendUpdate", NoParticle, store, v))
  /\ UNCHANGED <<created, stopped>>

\* get(p) / peek(p) of the synthetic atom or of what derives from it
GetSynth(p) == storeMode # "none" /\ Get(p)
PeekSynth(p) == storeMode # "none" /\ Peek(p)
WaveSynth(w) == storeMode # "none" /\ Wave(w)

Init ==
  /\ value = [p \in Atoms \cup Quanta |->
                IF p \in ReactionAtoms \cup ReactionQuanta THEN Undefined ELSE 0]
  /\ isDirty = [m \in Mols |-> TRUE]
  /\ cachedValue = [m \in Mols |-> Undefined]
  /\ dependents = [p \in Particles |-> <<>>]
  /\ dependencies = [p \in Particles |-> {}]
  /\ CONTEXT_STACK = <<>>
  /\ hadInitialRun = {}
  /\ pendingWaves = <<>>
  /\ isRunning = FALSE
  /\ microtasks = <<>>
  /\ ctrl = 0
  /\ aborted = {}
  /\ promises = <<>>
  /\ keepPrevious = FALSE
  /\ storeMode = "none"
  /\ store = 0
  /\ subscribers = {}
  /\ unsubscribeFn = [a \in Synths |-> FALSE]
  /\ held = [a \in Synths |-> 0]
  /\ subs = <<>>
  /\ created = {}
  /\ stopped = {}
  /\ seen = [w \in Waves |-> Undefined]
  /\ last = Call("init", NoParticle, Undefined, Undefined)
  /\ thrown = FALSE
  /\ everThrown = FALSE
  /\ trace = <<>>

\* a program that uses the default (sync) scheduler only
SyncProgram == {"w1", "w2", "w3"}

Next ==
  \/ \E a \in UserAtoms, f \in Writers : Set(a, f)
  \/ \E q \in UserQuanta, v \in Values : WriteQuantum(q, v)
  \/ \E p \in UserReads : Get(p)
  \/ \E p \in UserReads : Peek(p)
  \/ \E w \in SyncProgram : Wave(w)
  \/ \E w \in SyncProgram : Stop(w)

Spec == Init /\ [][Next]_vars

\* a program in which a wave that only peeks writes an atom (the waves of the
\* test 'peeking does not trigger a wave') next to a molecule with a dependent
PeekProgram == {"w4", "wP"}

NextPeek ==
  \/ \E a \in UserAtoms, f \in Writers : Set(a, f)
  \/ \E p \in {"mC"} : Get(p)
  \/ \E p \in {"mC"} : Peek(p)
  \/ \E w \in PeekProgram : Wave(w)
  \/ \E w \in PeekProgram : Stop(w)

SpecPeek == Init /\ [][NextPeek]_vars

\* a program that mixes waves on the batching scheduler with sync waves
AsyncProgram == {"wA", "wT", "w2"}

NextAsync ==
  \/ \E a \in UserAtoms, f \in Writers : Set(a, f)
  \/ \E p \in {"mA"} : Get(p)
  \/ \E w \in AsyncProgram : Wave(w)
  \/ \E w \in AsyncProgram : Stop(w)
  \/ Microtask

SpecAsync == Init /\ [][NextAsync]_vars

\* a program in which a compute function and an updater can throw
ThrowProgram == {"wX", "w2"}
ThrowWriters == Writers \cup {FnWriter("boom")}

NextThrow ==
  \/ \E a \in UserAtoms, f \in ThrowWriters : Set(a, f)
  \/ \E p \in {"mT"} : Get(p)
  \/ \E p \in {"mT"} : Peek(p)
  \/ \E w \in ThrowProgram : Wave(w)

SpecThrow == Init /\ [][NextThrow]_vars

\* a program that holds a quantum pair and hands its particle to a wave and to
\* code that tries set on it
QuantumProgram == {"w3"}

NextQuantum ==
  \/ \E a \in UserAtoms \cup UserQuanta, f \in Writers : Set(a, f)
  \/ \E q \in UserQuanta, v \in Values : WriteQuantum(q, v)
  \/ \E q \in UserQuanta : Get(q)
  \/ \E w \in QuantumProgram : Wave(w)
  \/ \E w \in QuantumProgram : Stop(w)

SpecQuantum == Init /\ [][NextQuantum]_vars

\* a program with a synthetic atom over an external store, a molecule and
\* waves that derive from it
SynthProgram == {"wS", "wM"}
SynthReads == {"s", "mS"}
StoreModes == {"change", "always"}

NextSynth ==
  \/ \E a \in Synths, mode \in StoreModes : Synth(a, mode)
  \/ \E a \in Synths, f \in Writers : SetSynth(a, f)
  \/ \E v \in Values : StoreSendUpdate(v)
  \/ \E p \in SynthReads : GetSynth(p)
  \/ \E p \in SynthReads : PeekSynth(p)
  \/ \E w \in SynthProgram : WaveSynth(w)
  \/ \E w \in SynthProgram : Stop(w)

SpecSynth == Init /\ [][NextSynth]_vars

\* a program in which a wave reads a molecule over a molecule, then an atom
\* with get and another with peek
NestProgram == {"wN", "w2"}
NestReads == {"a", "mA", "mB"}

NextNest ==
  \/ \E a \in UserAtoms, f \in Writers : Set(a, f)
  \/ \E p \in NestReads : Get(p)
  \/ \E p \in NestReads : Peek(p)
  \/ \E w \in NestProgram : Wave(w)
  \/ \E w \in NestProgram : Stop(w)

SpecNest == Init /\ [][NextNest]_vars

\* a program in which the effect of a wave stops another wave
PassProgram == {"wK", "w2"}

NextPass ==
  \/ \E a \in UserAtoms, f \in Writers : Set(a, f)
  \/ \E p \in {"mA"} : Get(p)
  \/ \E w \in PassProgram : Wave(w)
  \/ \E w \in PassProgram : Stop(w)

SpecPass == Init /\ [][NextPass]_vars

\* a program in which the effect of a wave reads the atom b only when the atom
\* a is not 0, and code outside the waves writes both atoms
RederiveProgram == {"wC", "w2"}
RederiveAtoms == {"a", "b"}

NextRederive ==
  \/ \E a \in RederiveAtoms, f \in Writers : Set(a, f)
  \/ \E w \in RederiveProgram : Wave(w)
  \/ \E w \in RederiveProgram : Stop(w)

SpecRederive == Init /\ [][NextRederive]_vars

\* a program in which a wave reads an atom through two molecules that meet in
\* a third, and another reads it both directly and through a molecule
DiamondProgram == {"wD", "wB"}
DiamondReads == {"mD", "mP"}

NextDiamond ==
  \/ \E a \in UserAtoms, f \in Writers : Set(a, f)
  \/ \E p \in DiamondReads : Get(p)
  \/ \E p \in DiamondReads : Peek(p)
  \/ \E w \in DiamondProgram : Wave(w)
  \/ \E w \in DiamondProgram : Stop(w)

SpecDiamond == Init /\ [][NextDiamond]_vars

\* a program in which the effect of a wave on the batching scheduler reads a
\* molecule whose compute function can throw, next to another batched wave
FlushThrowProgram == {"wY", "wA"}

NextFlushThrow ==
  \/ \E a \in UserAtoms, f \in Writers : Set(a, f)
  \/ \E w \in FlushThrowProgram : Wave(w)
  \/ \E w \in FlushThrowProgram : Stop(w)
  \/ Microtask

SpecFlushThrow == Init /\ [][NextFlushThrow]_vars

\* a program in which an atom has a molecule whose compute function can
\* throw and other molecules and waves among its dependents
ThrowPassProgram == {"wX", "w2"}
ThrowPassReads == {"mT", "mA"}

NextThrowPass ==
  \/ \E a \in UserAtoms, f \in Writers : Set(a, f)
  \/ \E p \in ThrowPassReads : Get(p)
  \/ \E w \in ThrowPassProgram : Wave(w)
  \/ \E w \in ThrowPassProgram : Stop(w)

SpecThrowPass == Init /\ [][NextThrowPass]_vars

(* ------------------------ observables/base.ts ------------------------ *)
\* One record per call of subscribe, holding the variables its closures share:
\*   observer       base.ts:100 `let observer` (FALSE: undefined)
\*   cleanupFlag    base.ts:113
\*   canRunCleanup  base.ts:114
\*   teardowns      base.ts:99, the number of functions in the array
\*   signal, aborted  whether options.signal was passed, whether it has aborted
\*   cleanups       how many times the subscriber's cleanup function has run
\*   delivered      how many values the observer's next has handed over
\*   closedBy       the call that closed the subscription
\*   early          whether it was closed before the subscriber function returned

Subscription(signal) ==
  [observer |-> TRUE, cleanupFlag |-> FALSE, canRunCleanup |-> FALSE,
   teardowns |-> 0, signal |-> signal, aborted |-> FALSE, cleanups |-> 0,
   delivered |-> 0, closedBy |-> "none", early |-> FALSE]

\* base.ts:116-124
cleanup(s) ==
  LET s1 == [s EXCEPT !.cleanupFlag = TRUE, !.observer = FALSE,
                      !.early = @ \/ (~s.cleanupFlag /\ ~s.canRunCleanup)] IN
  IF ~s1.canRunCleanup THEN s1
  ELSE [s1 EXCEPT !.canRunCleanup = FALSE, !.cleanups = @ + s1.teardowns]

\* base.ts:130-132, `get closed()`
closed(s) == ~s.observer

ClosedBy(s, op) == [s EXCEPT !.closedBy = IF s.observer THEN op ELSE @]

\* base.ts:127-129
subscriptionUnsubscribe(s) ==
  IF s.observer THEN cleanup(ClosedBy(s, "unsubscribe")) ELSE s

\* base.ts:136-149
observerNext(s) == IF closed(s) THEN s ELSE [s EXCEPT !.delivered = @ + 1]

\* base.ts:150-166
observerError(s) ==
  IF closed(s) THEN s ELSE cleanup([ClosedBy(s, "error") EXCEPT !.observer = FALSE])

\* base.ts:167-183
observerComplete(s) ==
  IF closed(s) THEN s ELSE cleanup([ClosedBy(s, "complete") EXCEPT !.observer = FALSE])

\* base.ts:108-110, the listener of the signal's abort event, which the host
\* fires once, on the first abort() of a signal that was passed
signalAbort(s) ==
  IF ~s.signal \/ s.aborted THEN s
  ELSE LET s1 == [s EXCEPT !.aborted = TRUE] IN
       IF s1.observer THEN cleanup(ClosedBy(s1, "abort")) ELSE s1

\* the calls a subscriber function makes before it returns
SyncOps == {"next", "error", "complete", "unsubscribe", "abort"}
SubscriberPrograms == UNION {[1..k -> SyncOps] : k \in 0..MaxSync}
\* what it returns: a cleanup function, undefined, a value that is neither
\* (base.ts:216-221), or nothing because it throws
Returns == {"function", "nothing", "invalid", "throw"}

Apply(s, op) ==
  CASE op = "next" -> observerNext(s)
    [] op = "error" -> observerError(s)
    [] op = "complete" -> observerComplete(s)
    [] op = "unsubscribe" -> subscriptionUnsubscribe(s)
    [] op = "abort" -> signalAbort(s)

RECURSIVE runSubscriber(_, _, _)
runSubscriber(s, prog, i) ==
  IF i > Len(prog) THEN s ELSE runSubscriber(Apply(s, prog[i]), prog, i + 1)

\* mutant: a close made before the subscriber function returned is forgotten
afterSubscriberNoFlag(s) == [s EXCEPT !.canRunCleanup = TRUE]

\* base.ts:224-227
afterSubscriber(s) ==
  LET s1 == [s EXCEPT !.canRunCleanup = TRUE] IN
  IF s1.cleanupFlag THEN cleanup(s1) ELSE s1

\* base.ts:94-233; startCloses: observer.start calls subscription.unsubscribe()
subscribe(signal, startCloses, prog, ret) ==
  LET s0 == Subscription(signal)
      s1 == IF startCloses THEN subscriptionUnsubscribe(s0) ELSE s0
  IN IF closed(s1) THEN afterSubscriber(s1)
     ELSE LET s2 == runSubscriber(s1, prog, 1) IN
          CASE ret = "function" -> afterSubscriber([s2 EXCEPT !.teardowns = @ + 1])
            [] ret = "nothing" -> afterSubscriber(s2)
            [] ret = "invalid" -> afterSubscriber(observerError(s2))
            [] ret = "throw" -> observerError(s2)

\* the variables of the dependency graph and of what is built on it
graphVars ==
  <<value, isDirty, cachedValue, dependents, dependencies, CONTEXT_STACK,
    hadInitialRun, pendingWaves, isRunning, microtasks, ctrl, aborted,
    promises, keepPrevious, storeMode, store, subscribers, unsubscribeFn,
    held, created, stopped, seen, last, thrown, everThrown, trace>>

Subscribe(signal, startCloses, prog, ret) ==
  /\ Len(subs) < MaxSubscriptions
  /\ subs' = Append(subs, subscribe(signal, startCloses, prog, ret))
  /\ UNCHANGED graphVars

\* a call made on the n-th subscription after subscribe has returned:
\* subscription.unsubscribe(), a call of the subscription observer, or the
\* abort of the signal
SubscriptionCall(n, op) ==
  /\ n \in DOMAIN subs
  /\ op = "next" => subs[n].delivered < MaxSync
  /\ subs' = [subs EXCEPT ![n] = Apply(@, op)]
  /\ UNCHANGED graphVars

NextObservable ==
  \/ \E signal \in BOOLEAN, startCloses \in BOOLEAN, prog \in SubscriberPrograms,
        ret \in Returns : Subscribe(signal, startCloses, prog, ret)
  \/ \E n \in 1..MaxSubscriptions, op \in SyncOps : SubscriptionCall(n, op)

SpecObservable == Init /\ [][NextObservable]_vars

\* a program with one reaction on the trigger atom t
NextReaction ==
  \/ \E autoObserve \in BOOLEAN, keep \in BOOLEAN : CreateReaction(autoObserve, keep)
  \/ \E v \in TriggerValues : SetTrigger(v)
  \/ Observe
  \/ Unobserve
  \/ \E n \in 1..MaxCalls : Settle(n)
  \/ Microtask
  \/ PromiseCallback

SpecReaction == Init /\ [][NextReaction]_vars

(* ------------------------- reading the trace -------------------------- *)

Runs(w) == Cardinality({i \in DOMAIN trace : trace[i].ev = "run" /\ trace[i].p = w})
Computes(m) ==
  Cardinality({i \in DOMAIN trace : trace[i].ev = "compute" /\ trace[i].p = m})
Notifies(p) ==
  Cardinality({i \in DOMAIN trace : trace[i].ev = "notify" /\ trace[i].p = p})
NotifiedBy(by) == {i \in DOMAIN trace : trace[i].ev = "notify" /\ trace[i].by = by}

\* the wave was constructed and its stop function has not been called
Active(w) == w \in created /\ w \notin stopped

\* the last action was a write from outside the waves that changed the value
UserWrote(a) == last.op = "set" /\ last.p = a /\ last.old # last.cand

\* what the pure compute functions give on the atom values val
RECURSIVE Derived(_, _)
Derived(val, p) ==
  IF p \in Mols
  THEN Compute(Factory[p].fn,
               [i \in DOMAIN Factory[p].reads |-> Derived(val, Factory[p].reads[i])])
  ELSE val[p]

(* ------------------------------ claims -------------------------------- *)

\* C1: a write (of an atom, or by the writer of a quantum pair) whose
\* candidate value is strictly equal to the current value leaves the value
\* unchanged and invokes notify on no dependent: nothing runs, nothing is
\* marked dirty or recomputed.  Every notify of a write's pass belongs to a
\* write whose candidate differed, and a public write with an equal candidate
\* does nothing but the comparison.
C1_ChangeGatedNotification ==
  /\ \A j \in DOMAIN trace :
       (trace[j].ev = "notify" /\ trace[j].wid # 0)
         => trace[trace[j].wid].old # trace[trace[j].wid].cand
  /\ \A i \in DOMAIN trace :
       (trace[i].ev = "write" /\ trace[i].old = trace[i].cand)
         => (i < Len(trace) => trace[i + 1].ev # "notify")
  /\ (last.op \in {"set", "write"} /\ last.old = last.cand)
       => /\ value[last.p] = last.old
          /\ Len(trace) = 1
          /\ \A w \in Waves : Runs(w) = 0
          /\ \A m \in Mols : Computes(m) = 0 /\ Notifies(m) = 0

\* an atom with a wave and a molecule (that has a dependent of its own) among
\* its dependents was written with its current value
C1_Witness ==
  /\ last.op = "set" /\ last.old = last.cand
  /\ SetHas(dependents[last.p], "mA") /\ SetHas(dependents[last.p], "w2")
  /\ SetSize(dependents["mA"]) > 0

\* the writer of the quantum pair was called with the particle's current value
\* while a wave depends on the particle
C1_WitnessQuantum ==
  /\ last.op = "write" /\ last.old = last.cand
  /\ SetHas(dependents[last.p], "w3")

\* C2 as stated: when set(a, v) with v different from the current value
\* returns, the effect of the wave at the end of the chain a -> mA -> mB -> w1
\* has re-run, and the value it read is mB's compute function on the new a.
C2_Original ==
  (UserWrote("a") /\ Active("w1"))
    => (Runs("w1") >= 1 /\ seen["w1"] = Derived(value, "mB"))

\* C2, amended: when such a set returns, the molecule value the wave read in
\* its last run equals the compute function applied to the new atom value; the
\* effect has re-run, once, exactly when that write changed the molecule's value.
C2_SynchronousPropagation ==
  (UserWrote("a") /\ Active("w1"))
    => /\ seen["w1"] = Derived(value, "mB")
       /\ Runs("w1") = IF Derived([value EXCEPT !["a"] = last.old], "mB")
                            # Derived(value, "mB")
                        THEN 1 ELSE 0

\* the write changed the molecules and the wave re-ran inside it
C2_Witness ==
  /\ UserWrote("a") /\ Active("w1")
  /\ Runs("w1") = 1 /\ Computes("mA") = 1 /\ Computes("mB") = 1
  /\ seen["w1"] = (value["a"] \div 2) + 1
  /\ seen["w1"] # (last.old \div 2) + 1

\* C3: wave(effect, scheduler) runs the effect exactly once, synchronously,
\* before it returns, under the sync and the batching scheduler alike, and the
\* particles the effect read with get are then dependencies of the wave.
C3_WaveRunsOnceAtConstruction ==
  last.op = "wave"
    => /\ Runs(last.p) = 1
       /\ trace[1] = Event("run", last.p)
       /\ \A p \in GetsOf(last.p) :
            p \in dependencies[last.p] /\ SetHas(dependents[p], last.p)

\* C4: in the chain a -> mA -> mB -> w1, a write of a after which mA's
\* recomputed value is strictly equal to mA's previous cached value does not
\* notify mA's dependents: mB's compute function does not run, mB's cached
\* value is untouched and the wave's effect does not run.
C4_ReferentialShortCircuit ==
  [][(/\ last'.op = "set"
      /\ Computes("mA")' >= 1
      /\ cachedValue'["mA"] = cachedValue["mA"])
       => /\ NotifiedBy("mA")' = {}
          /\ Computes("mB")' = 0
          /\ cachedValue'["mB"] = cachedValue["mB"]
          /\ isDirty'["mB"] = isDirty["mB"]
          /\ Runs("w1")' = 0
          /\ seen'["w1"] = seen["w1"]]_vars

\* the atom changed, mA was recomputed to the value it had, the chain is live
C4_Witness ==
  /\ UserWrote("a") /\ Active("w1")
  /\ Computes("mA") = 1 /\ last.old \div 2 = last.cand \div 2
  /\ SetHas(dependents["mA"], "mB") /\ SetHas(dependents["mB"], "w1")
  /\ Runs("w1") = 0

\* C5: a molecule without dependents does not run its compute function in
\* response to an upstream write: the write only marks it dirty and leaves
\* its cached value alone, however many writes follow its first read.
C5_LazyMolecule ==
  [][\A m \in Mols :
       (last'.op \in {"set", "write"} /\ SetSize(dependents[m]) = 0)
         => /\ Computes(m)' = 0
            /\ cachedValue'[m] = cachedValue[m]
            /\ (Notifies(m)' > 0 => isDirty'[m])]_vars

\* a molecule that was read before and has no dependents was notified by a
\* write: it is dirty and its cache is the stale value
C5_Witness ==
  /\ last.op = "set"
  /\ \E m \in Mols :
       /\ cachedValue[m] # Undefined /\ SetSize(dependents[m]) = 0
       /\ Notifies(m) >= 1 /\ Computes(m) = 0 /\ isDirty[m]
       /\ cachedValue[m] # Derived(value, m)

\* C6: a wave whose effect reads particles with peek only never has a
\* dependency edge, and its effect never runs again after its construction.
C6_PeekIsolation ==
  \A w \in PeekOnly :
    /\ dependencies[w] = {}
    /\ \A p \in Particles : ~SetHas(dependents[p], w)
    /\ Runs(w) = IF last.op = "wave" /\ last.p = w THEN 1 ELSE 0

\* C7: a write that changes an atom runs the effect of each sync wave that is
\* a direct dependent of the atom exactly once.
C7_FanOut ==
  \A a \in Atoms :
    UserWrote(a) =>
      \A w \in SyncWaves : (Active(w) /\ a \in GetsOf(w)) => Runs(w) = 1

\* two waves depend on the written atom and both have run, once
C7_Witness ==
  /\ UserWrote("a")
  /\ Active("w2") /\ Active("w3")
  /\ Runs("w2") = 1 /\ Runs("w3") = 1

\* C8 (sync scheduler): the stop function removes the wave from the dependent
\* set of every particle it depended on; a second call changes nothing; after
\* stop no write runs the wave's effect, and the other waves keep running.
C8_Unsubscribe ==
  [][/\ \A w \in stopped' :
          /\ dependencies'[w] = {}
          /\ \A p \in Particles : ~SetHas(dependents'[p], w)
          /\ Runs(w)' = 0
     /\ (last'.op = "stop" /\ last'.p \in stopped)
          => UNCHANGED <<value, isDirty, cachedValue, dependents, dependencies,
                         CONTEXT_STACK, created, stopped>>
     /\ \A a \in Atoms :
          UserWrote(a)' =>
            \A w \in SyncWaves : (Active(w)' /\ a \in GetsOf(w)) => Runs(w)' = 1]_vars

\* an atom was written after one of its two waves was stopped: the stopped
\* wave did not run, the other did
C8_Witness ==
  /\ UserWrote("a")
  /\ \E w \in {"w2", "w3"}, v \in {"w2", "w3"} :
       /\ w \in stopped /\ Active(v)
       /\ Runs(w) = 0 /\ Runs(v) = 1
       /\ ~SetHas(dependents["a"], w) /\ SetHas(dependents["a"], v)

\* C9: after a wave's stop function has returned, its effect is not executed
\* again and it has no dependency edge, also on the batching scheduler with a
\* re-run pending when stop was called.
C9_StoppedWaveNeverRuns ==
  \A w \in stopped :
    /\ Runs(w) = 0
    /\ dependencies[w] = {}
    /\ \A p \in Particles : ~SetHas(dependents[p], w)

\* the index after the last event of the pass that starts at trace index i
PassEnd(i) ==
  IF \E j \in DOMAIN trace : j > i /\ trace[j].ev = "pass"
  THEN CHOOSE j \in DOMAIN trace :
         /\ j > i /\ trace[j].ev = "pass"
         /\ \A k \in DOMAIN trace : (k > i /\ trace[k].ev = "pass") => j <= k
  ELSE Len(trace) + 1
RunsIn(w, i, n) ==
  Cardinality({j \in DOMAIN trace : i < j /\ j < n /\ trace[j].ev = "run" /\ trace[j].p = w})

\* no write and no construction of another wave runs the effect of a wave on
\* the batching scheduler that has had its initial run
NoSyncRerun ==
  last.op # "flush" =>
    \A w \in AsyncWaves : Runs(w) = IF last.op = "wave" /\ last.p = w THEN 1 ELSE 0

\* C10 as stated: the notifications a wave on the batching scheduler received
\* before a flush result in exactly one execution of its effect in that flush,
\* and in none inside the writes.
C10_Original ==
  /\ NoSyncRerun
  /\ (last.op = "flush" /\ trace # <<>>) => \A w \in trace[1].deps : Runs(w) = 1

\* C10, amended: the notifications received before a flush result in exactly
\* one execution of the effect in the first pass of that flush, and in none
\* inside the writes; every pass runs each wave pending at its start once, so
\* the effect runs again in the same flush only if the wave is scheduled again
\* while the flush runs.
C10_Batching ==
  /\ NoSyncRerun
  /\ last.op = "flush" =>
       /\ \A i \in DOMAIN trace :
            trace[i].ev = "pass" =>
              \A w \in AsyncWaves :
                RunsIn(w, i, PassEnd(i)) = IF w \in trace[i].deps THEN 1 ELSE 0
       /\ trace # <<>> => trace[1].ev = "pass"

\* a flush ran a pending wave once in its only pass
C10_Witness ==
  /\ last.op = "flush"
  /\ \E w \in AsyncWaves :
       /\ trace[1].ev = "pass" /\ w \in trace[1].deps
       /\ Runs(w) = 1
       /\ PassEnd(1) = Len(trace) + 1

\* C11: a wave scheduled while a flush is in progress, also by an effect that
\* the flush runs, is not dropped: when the flush returns normally the pending
\* set is empty, the scheduler is idle, and every wave that was pending when
\* the flush started or was scheduled during it has run after its last
\* schedule call, the latter in a further pass of the same flush.
C11_Drain ==
  (last.op = "flush" /\ ~thrown) =>
    /\ pendingWaves = <<>> /\ ~isRunning
    /\ trace # <<>> /\ trace[1].ev = "pass"
    /\ \A i \in DOMAIN trace :
         /\ trace[i].ev = "pass" =>
              \A w \in trace[i].deps :
                \E j \in DOMAIN trace : j > i /\ trace[j] = Event("run", w)
         /\ trace[i].ev = "pending" =>
              \E k, j \in DOMAIN trace :
                /\ i < k /\ k < j
                /\ trace[k].ev = "pass" /\ trace[i].p \in trace[k].deps
                /\ trace[j] = Event("run", trace[i].p)

\* an effect run by the flush scheduled a wave, which ran in a second pass
C11_Witness ==
  /\ last.op = "flush" /\ ~thrown
  /\ \E i, k, j \in DOMAIN trace :
       /\ 1 < i /\ i < k /\ k < j
       /\ trace[i].ev = "pending" /\ trace[k].ev = "pass"
       /\ trace[j] = Event("run", trace[i].p)

\* the trace index of an event ev of p, before index n, not before index i
EventIn(ev, p, i, n) ==
  \E k \in DOMAIN trace : i <= k /\ k < n /\ trace[k].ev = ev /\ trace[k].p = p

\* C12: a read of a molecule that is not dirty returns the cached value and
\* does not run the compute function; the compute function runs at most once
\* between two invalidations (notifications) of the molecule, however many
\* reads there are; a write that does not reach the molecule leaves its cached
\* value, the object of the last computation, in place.
C12_Memoization ==
  [][\A m \in Mols :
       /\ (last'.op \in {"get", "peek"} /\ last'.p = m /\ ~isDirty[m])
            => /\ Computes(m)' = 0
               /\ last'.cand = cachedValue[m]
               /\ cachedValue'[m] = cachedValue[m]
       /\ \A j \in DOMAIN trace' :
            (trace'[j].ev = "compute" /\ trace'[j].p = m)
              => /\ ~isDirty[m] => EventIn("notify", m, 1, j)'
                 /\ \A i \in 1..(j - 1) :
                      (trace'[i].ev = "compute" /\ trace'[i].p = m)
                        => EventIn("notify", m, i, j)'
       /\ (~isDirty[m] /\ Notifies(m)' = 0)
            => (Computes(m)' = 0 /\ cachedValue'[m] = cachedValue[m]
                /\ ~isDirty'[m])]_vars

\* a molecule that is not dirty was read and returned its cache uncomputed
C12_Witness ==
  /\ last.op = "get" /\ last.p = "mB"
  /\ Computes("mB") = 0 /\ Computes("mA") = 0
  /\ ~isDirty["mB"] /\ last.cand = cachedValue["mB"]

\* the compute function of m / the updater given to a write of atom m threw
Threw(m) == \E i \in DOMAIN trace : trace[i] = Event("throw", m)

\* C13: when the compute function of a molecule throws, in a read or in the
\* recomputation that a notification starts, the public call throws to its
\* caller, the molecule keeps the cached value it had and is dirty; and every
\* read of a dirty molecule runs the compute function, so the next read does
\* not return the stale value without recomputing.
C13_FailedRecomputation ==
  [][\A m \in Mols :
       /\ Threw(m)' => (thrown' /\ cachedValue'[m] = cachedValue[m] /\ isDirty'[m])
       /\ (last'.op \in {"get", "peek"} /\ last'.p = m /\ isDirty[m])
            => Computes(m)' >= 1]_vars

\* a write notified a molecule with a dependent, its recomputation threw out of
\* set; the molecule is dirty and holds the value of its last good computation
C13_Witness ==
  /\ last.op = "set" /\ thrown /\ Threw("mT")
  /\ SetHas(dependents["mT"], "wX")
  /\ isDirty["mT"] /\ cachedValue["mT"] = 1 /\ value["a"] = 2

\* a read of the molecule threw to its caller
C13_WitnessRead ==
  /\ last.op = "get" /\ last.p = "mT" /\ thrown /\ Threw("mT")
  /\ isDirty["mT"] /\ cachedValue["mT"] = 1

\* C14: when the updater function passed to set throws, set throws to its
\* caller, the atom keeps its value, no dependent is notified and nothing else
\* in the program changes.
C14_UpdaterThrows ==
  [][(last'.op = "set"
      /\ \E i \in DOMAIN trace' : trace'[i] = Event("throw", last'.p))
       => /\ thrown'
          /\ value' = value
          /\ \A i \in DOMAIN trace' : trace'[i].ev \notin {"notify", "run", "compute"}
          /\ UNCHANGED <<isDirty, cachedValue, dependents, dependencies,
                         CONTEXT_STACK, seen>>]_vars

\* set was given a throwing updater for an atom that a wave and a molecule
\* depend on
C14_Witness ==
  /\ last.op = "set" /\ last.p = "a" /\ thrown /\ Threw("a")
  /\ SetHas(dependents["a"], "w2") /\ SetHas(dependents["a"], "mT")

(* ------------------------- claims: reactions -------------------------- *)

Reaction == "rM" \in created
Calls == Len(promises)
\* the last action started a call of the action with this input
Invoked(input) ==
  \E i \in DOMAIN trace : trace[i].ev = "invoke" /\ trace[i].cand = input
Invocations == Cardinality({i \in DOMAIN trace : trace[i].ev = "invoke"})

\* C15: once the trigger's value has changed, the settlement of a call of the
\* action that was started for an earlier trigger value is not written into
\* result, error or state, in whatever order the trigger change, the
\* settlement callback and the scheduler's flush come.
C15_NoSupersededOutcome ==
  [][(last'.op = "then" /\ promises[last'.old].superseded)
       => /\ value'["result"] = value["result"]
          /\ value'["error"] = value["error"]
          /\ value'["state"] = value["state"]]_vars

\* nothing is left to run for an observed reaction: no microtask is queued
\* and every promise has settled and had its callback run
Quiescent ==
  /\ Reaction /\ value["observerCount"] > 0
  /\ microtasks = <<>>
  /\ \A n \in DOMAIN promises : promises[n].status # "running"

\* C16: for an observed reaction the action is eventually called with the
\* trigger's latest value and, its promise settled and the trigger unchanged,
\* the reaction reaches success with that call's result or error with its
\* rejection: when nothing is left to run, that call has been made and state,
\* result and error are its outcome.
C16_ReactionLiveness ==
  Quiescent =>
    /\ \E n \in DOMAIN promises :
         promises[n].input = value["t"] /\ ~promises[n].superseded
    /\ \/ value["state"] = Success /\ value["result"] = ResultOf(value["t"])
       \/ value["state"] = Failure /\ value["error"] = ErrorOf(value["t"])

\* C17: when createReaction returns with autoObserve = true, state is
\* pending, result and error are null and the action has not been called; the
\* flush that follows calls it once, with the trigger's value at that time.
C17_PendingAfterCreate ==
  [][/\ (last'.op = "create" /\ value'["observerCount"] = 1)
          => /\ value'["state"] = Pending
             /\ value'["result"] = Null /\ value'["error"] = Null
             /\ promises' = <<>>
             /\ microtasks' = <<FlushTask>>
     /\ (last'.op = "flush" /\ Reaction /\ promises = <<>>
         /\ value["observerCount"] > 0)
          => /\ Len(promises') = 1
             /\ promises'[1].input = value'["t"]
             /\ promises'[1].status = "running"]_vars

\* the flush after the construction called the action with the trigger's
\* value, which was changed after the construction
C17_Witness ==
  /\ last.op = "flush" /\ Calls = 1 /\ Invocations = 1
  /\ promises[1].input = 1 /\ value["t"] = 1
  /\ value["state"] = Pending

\* C18: whenever the batching scheduler has no pending flush, state = success
\* implies error = null, and state = error implies result = null and error =
\* the rejection value of a call of the action.
C18_OutcomeExclusive ==
  (Reaction /\ ~isRunning) =>
    /\ value["state"] = Success => value["error"] = Null
    /\ value["state"] = Failure =>
         /\ value["result"] = Null
         /\ \E n \in DOMAIN promises :
              promises[n].status = "rejected"
                /\ value["error"] = ErrorOf(promises[n].input)

\* C18 for a reaction that is observed
C18_OutcomeExclusiveObserved ==
  value["observerCount"] > 0 => C18_OutcomeExclusive

\* C19 as stated: with an observer count of 0 the action is never called;
\* after observe() raises the count above 0, the next flush takes the
\* reaction to pending and calls the action with the trigger's current value.
C19_Original ==
  [][/\ value["observerCount"] = 0 => Len(promises') = Len(promises)
     /\ (last.op = "observe" /\ last.old = 0 /\ last'.op = "flush")
          => /\ Len(promises') = Len(promises) + 1
             /\ promises'[Len(promises')].input = value'["t"]
             /\ value'["state"] = Pending]_vars

\* C19, amended: with an observer count of 0 the action is never called;
\* after observe() raises the count above 0, the next flush calls the action
\* with the trigger's current value if state is idle or pending at that
\* time; if state is success or error it calls nothing and leaves state.
C19_Observation ==
  [][/\ value["observerCount"] = 0 => Len(promises') = Len(promises)
     /\ (last.op = "observe" /\ last.old = 0 /\ last'.op = "flush")
          => IF value["state"] \in {Idle, Pending}
             THEN /\ Len(promises') = Len(promises) + 1
                  /\ promises'[Len(promises')].input = value'["t"]
                  /\ value'["state"] = Pending
             ELSE /\ promises' = promises
                  /\ value'["state"] = value["state"]]_vars

\* observe() raised the count of an idle reaction whose trigger had changed
\* while nobody observed it; the flush is queued
C19_Witness ==
  /\ last.op = "observe" /\ last.old = 0
  /\ value["observerCount"] = 1 /\ value["state"] = Idle
  /\ value["t"] # 0 /\ microtasks = <<FlushTask>>

\* C20: with keepPrevious = false, result and error are null at the end of
\* the flush that starts a call of the action; with keepPrevious = true they
\* keep their values in every step that leaves state idle or pending.
C20_KeepPrevious ==
  [][/\ (Reaction /\ ~keepPrevious /\ last'.op = "flush" /\ Invocations' >= 1)
          => value'["result"] = Null /\ value'["error"] = Null
     /\ (Reaction /\ keepPrevious /\ value'["state"] \in {Idle, Pending})
          => /\ value'["result"] = value["result"]
             /\ value'["error"] = value["error"]]_vars

\* with keepPrevious = true the action was called for a new trigger value
\* and the result of the previous call is still there
C20_Witness ==
  /\ keepPrevious /\ last.op = "flush" /\ Invocations = 1
  /\ value["state"] = Pending /\ value["result"] # Null
  /\ value["result"] # ResultOf(value["t"])

\* the calls of the action stay within the bound
CallsBounded == Calls <= MaxCalls

(* ---------------------- claims: adapters and graph -------------------- *)

\* C21: set called on the particle of a quantum pair throws, leaves the
\* particle's value unchanged and notifies no dependent; the value of the
\* particle changes only in a call of the paired writer.
C21_QuantumWriteRestriction ==
  [][/\ (last'.op = "set" /\ last'.p \in Quanta)
          => /\ thrown'
             /\ value' = value
             /\ \A i \in DOMAIN trace' :
                  trace'[i].ev \notin {"write", "notify", "run", "compute"}
             /\ UNCHANGED <<isDirty, cachedValue, dependents, dependencies, seen>>
     /\ \A q \in UserQuanta :
          value'[q] # value[q] => (last'.op = "write" /\ last'.p = q)]_vars

\* set was called with a new value on a particle that a wave depends on
C21_Witness ==
  /\ last.op = "set" /\ last.p = "q" /\ thrown
  /\ last.cand # value["q"]
  /\ SetHas(dependents["q"], "w3") /\ Active("w3")

\* the events ev of p in the trace of the last action
Events(ev, p) == {i \in DOMAIN trace : trace[i].ev = ev /\ trace[i].p = p}

\* C22: set on the synthetic atom calls sendUpdate once, with the candidate
\* value (the updater applied to the snapshot when a function is given), and
\* notifies no dependent itself: every notification of a dependent of the atom
\* is made by the store's call of the atom's listener.  When set returns, the
\* store holds the candidate, a read of the atom returns the store's value and
\* a read of the molecule over it returns its compute function on that value.
C22_SyntheticWrite ==
  /\ (last.op = "set" /\ last.p \in Synths /\ ~thrown)
       => /\ Cardinality(Events("send", last.p)) = 1
          /\ \A i \in Events("send", last.p) : trace[i].cand = last.cand
          /\ store = last.cand
          /\ (last.old = last.cand /\ storeMode = "change") => NotifiedBy(last.p) = {}
  /\ \A j \in DOMAIN trace :
       (trace[j].ev = "notify" /\ trace[j].by \in Synths)
         => /\ trace[j].wid \in 1..(j - 1)
            /\ trace[trace[j].wid].ev = "listener"
            /\ trace[trace[j].wid].p = trace[j].by
  /\ (last.op \in {"get", "peek"} /\ ~thrown)
       => /\ last.p = "s" => last.cand = store
          /\ last.p = "mS" => last.cand = Compute(Factory["mS"].fn, <<store>>)

\* set changed the store, which called the listener: the molecule over the
\* atom was recomputed and the wave at the end of the chain re-ran with it
C22_Witness ==
  /\ last.op = "set" /\ last.p = "s" /\ last.old # last.cand
  /\ storeMode = "change" /\ store = last.cand
  /\ Active("wM") /\ Computes("mS") = 1 /\ Runs("wM") = 1
  /\ seen["wM"] = 2 * store

\* C23: when the store calls the listener of the synthetic atom of
\* synthetic-atom.ts with a snapshot equal to the value the atom last held, no
\* dependent of the atom is notified.
C23_EqualityGate ==
  \A i \in DOMAIN trace :
    (trace[i].ev = "listener" /\ trace[i].old = trace[i].cand)
      => ~\E j \in DOMAIN trace :
            trace[j].ev = "notify" /\ trace[j].by = trace[i].p /\ trace[j].wid = i

\* C23 for a store that calls its subscribers only when its value changed
C23_EqualityGateOnChange == storeMode = "change" => C23_EqualityGate

\* C24: when the store calls the listener of a synthetic atom that has no
\* dependents, the atom calls the store's unsubscribe function once and
\* notifies nobody.  It then stays unsubscribed until its next write or its
\* next read made while it has a dependent, where it subscribes again, and
\* every read returns the store's current snapshot, also when the store
\* changed while the atom was unsubscribed.
C24_SyntheticUnsubscription ==
  [][\A a \in Synths :
       /\ \A i \in Events("listener", a)' :
            trace'[i].deps = {}
              => /\ Cardinality(Events("unsubscribe", a)') = 1
                 /\ NotifiedBy(a)' = {}
                 /\ ~unsubscribeFn'[a] /\ a \notin subscribers'
       /\ (storeMode # "none" /\ ~unsubscribeFn[a])
            => /\ Events("subscribe", a)' # {}
                    <=> \/ last'.op = "set" /\ last'.p = a
                        \/ /\ last'.op \in {"get", "peek", "wave"}
                           /\ SetSize(dependents'[a]) > 0
               /\ (Events("subscribe", a)' = {}) => ~unsubscribeFn'[a]
       /\ unsubscribeFn'[a] <=> a \in subscribers'
       /\ (last'.op \in {"get", "peek"} /\ last'.p = a) => last'.cand = store'
       /\ (last'.op = "wave" /\ last'.p = "wS") => seen'["wS"] = store']_vars

\* the store changed and called the listener of the atom, which had no
\* dependents: the atom unsubscribed
C24_Witness ==
  /\ last.op \in {"set", "sendUpdate"} /\ last.old # last.cand
  /\ \E i \in Events("listener", "s") : trace[i].deps = {}
  /\ Cardinality(Events("unsubscribe", "s")) = 1
  /\ ~unsubscribeFn["s"] /\ subscribers = {}

\* the store changed while the atom was unsubscribed
C24_WitnessSilent ==
  /\ last.op = "sendUpdate" /\ last.old # last.cand /\ trace = <<>>
  /\ ~unsubscribeFn["s"]

\* a wave read the atom, which subscribed again, and got the store's value
C24_WitnessResubscribe ==
  /\ last.op = "wave" /\ last.p = "wS" /\ Events("subscribe", "s") # {}
  /\ unsubscribeFn["s"] /\ seen["wS"] = store /\ store # 0

\* C25: the cleanup function returned by the subscriber runs at most once for
\* a subscription, never while the subscription is open, and has run exactly
\* once when the subscription is closed, whether it was closed by
\* unsubscribe(), observer.error, observer.complete or the abort of the
\* signal, after the subscriber function returned or inside it; calls made
\* on a closed subscription do not run it again.
C25_CleanupOnce ==
  [][\A n \in DOMAIN subs' :
       /\ subs'[n].cleanups <= 1
       /\ subs'[n].teardowns = 1
            => (subs'[n].cleanups = 1 <=> ~subs'[n].observer)
       /\ (n \in DOMAIN subs /\ ~subs[n].observer)
            => (~subs'[n].observer /\ subs'[n].cleanups = subs[n].cleanups)]_vars

\* error was called inside the subscriber function, which then returned a
\* cleanup function: it has run once
C25_Witness ==
  \E n \in DOMAIN subs :
    /\ subs[n].early /\ subs[n].closedBy \in {"error", "complete"}
    /\ subs[n].teardowns = 1 /\ subs[n].cleanups = 1

\* a subscription that was handed a value was closed by the abort of its
\* signal after subscribe returned
C25_WitnessLate ==
  \E n \in DOMAIN subs :
    /\ ~subs[n].early /\ subs[n].closedBy = "abort" /\ subs[n].delivered > 0
    /\ subs[n].teardowns = 1 /\ subs[n].cleanups = 1

(* ------------------ claims: the dependency graph ---------------------- *)

\* C26: in every state, B is in the dependency set of A if and only if A is
\* in the dependent set of B.
C26_EdgeSymmetry ==
  \A A \in Particles, B \in Particles :
    B \in dependencies[A] <=> SetHas(dependents[B], A)

\* the stop function of a wave removed its edges while the molecules it read
\* keep theirs
C26_Witness ==
  /\ last.op = "stop" /\ last.p = "wN" /\ dependencies["wN"] = {}
  /\ ~SetHas(dependents["mB"], "wN") /\ ~SetHas(dependents["b"], "wN")
  /\ dependencies["mB"] = {"mA"} /\ SetHas(dependents["mA"], "mB")
  /\ SetHas(dependents["a"], "w2")

\* C27 as stated: a get or a peek called outside any compute function and
\* effect leaves both dependency maps unchanged.
C27_Original ==
  [][last'.op \in {"get", "peek"} => UNCHANGED <<dependents, dependencies>>]_vars

\* C27, amended: a get or a peek called outside any compute function and
\* effect adds no edge to the particle it reads, and leaves both maps
\* unchanged unless that particle is a dirty molecule: then the only new edges
\* are those of the molecules whose compute function ran in the call, made by
\* the gets in them.  A peek inside an effect adds no edge from the wave to
\* the particle it reads.
C27_EdgesOnlyInContext ==
  [][/\ last'.op \in {"get", "peek"}
          => /\ SetElems(dependents'[last'.p]) = SetElems(dependents[last'.p])
             /\ \A A \in Particles : \A B \in dependencies'[A] \ dependencies[A] :
                  A \in Mols /\ Computes(A)' >= 1 /\ B \in ReadsOf(A)
             /\ \A B \in Particles :
                  SetElems(dependents'[B]) \ SetElems(dependents[B])
                    \subseteq {A \in Mols : Computes(A)' >= 1}
             /\ (last'.p \in Mols => ~isDirty[last'.p])
                  => UNCHANGED <<dependents, dependencies>>
     /\ \A w \in Waves : \A B \in PeeksOf(w) \ GetsOf(w) :
          B \notin dependencies'[w] /\ ~SetHas(dependents'[B], w)]_vars

\* a peek outside any context read a dirty molecule over a dirty molecule:
\* the only edges are those of the two compute functions
C27_Witness ==
  /\ last.op = "peek" /\ last.p = "mB"
  /\ Computes("mB") = 1 /\ Computes("mA") = 1
  /\ dependencies["mB"] = {"mA"} /\ dependencies["mA"] = {"a"}
  /\ SetElems(dependents["mB"]) = {}

\* C28: a get is attributed to the top of the context stack only.  Every
\* edge of a wave leads to a particle its own effect reads with get, every
\* edge of a molecule to a particle its own compute function reads; when
\* wave() returns, the wave has an edge to each particle its effect read with
\* get, those after a nested molecule computation included, and none to what
\* the molecules read.
C28_NestedAttribution ==
  /\ \A w \in Waves : dependencies[w] \subseteq GetsOf(w)
  /\ \A m \in Mols : dependencies[m] \subseteq ReadsOf(m)
  /\ last.op = "wave"
       => /\ dependencies[last.p] = GetsOf(last.p)
          /\ \A m \in Mols : Computes(m) >= 1 => dependencies[m] = ReadsOf(m)

\* the wave read a dirty molecule over a dirty molecule, then an atom
C28_Witness ==
  /\ last.op = "wave" /\ last.p = "wN"
  /\ Computes("mB") = 1 /\ Computes("mA") = 1
  /\ dependencies["wN"] = {"mB", "b"}
  /\ dependencies["mB"] = {"mA"} /\ dependencies["mA"] = {"a"}

\* C29: runInContext pops what it pushed on every exit path: whenever no
\* compute function and no effect is executing the context stack is empty,
\* also after a compute function threw inside an effect, and the edges made
\* afterwards go to the right dependents.
C29_ContextStackDiscipline ==
  /\ CONTEXT_STACK = <<>>
  /\ \A w \in Waves : dependencies[w] \subseteq GetsOf(w)
  /\ \A m \in Mols : dependencies[m] \subseteq ReadsOf(m)

\* wave() threw because the compute function of the molecule its effect
\* reads threw, two levels deep
C29_Witness ==
  /\ last.op = "wave" /\ last.p = "wX" /\ thrown /\ Threw("mT")
  /\ Runs("wX") = 1 /\ Computes("mT") = 1
  /\ dependencies["wX"] = {"mT"} /\ dependencies["mT"] = {"a"}

\* the notifications of the pass started by the write at trace index i
PassOf(i) == {j \in DOMAIN trace : trace[j].ev = "notify" /\ trace[j].wid = i}

\* C30: in the pass of a write that changed the value, exactly the dependents
\* present when the pass began are notified, each once, whatever the effects
\* that run during the pass do to the dependent set.
C30_PassIsolation ==
  \A i \in DOMAIN trace :
    (trace[i].ev = "write" /\ trace[i].old # trace[i].cand)
      => /\ {trace[j].p : j \in PassOf(i)} = trace[i].deps
         /\ \A j, k \in PassOf(i) : trace[j].p = trace[k].p => j = k

(* --------------------- claims: derived properties --------------------- *)

\* the current value of every particle that is not derived
Current ==
  [p \in Atoms \cup Quanta \cup Synths |-> IF p \in Synths THEN store ELSE value[p]]

\* the compute function of m evaluated on what the particles it reads are worth
Fresh(m) ==
  Compute(Factory[m].fn,
          [i \in DOMAIN Factory[m].reads |-> Derived(Current, Factory[m].reads[i])])

\* C31: after each completed run of a wave's effect the wave's dependency set
\* is exactly the set of particles that run read with get (the effect of wC
\* reads b only when a is not 0, and every change of a re-runs it), and a
\* change of a particle that only an earlier run read does not run the effect.
C31_Rederivation ==
  /\ Active("wC")
       => dependencies["wC"] = (IF value["a"] = 0 THEN {"a"} ELSE {"a", "b"})
  /\ (UserWrote("b") /\ Active("wC") /\ value["a"] = 0) => Runs("wC") = 0

\* C32: whenever no operation is in progress and no call has thrown so far,
\* every molecule is dirty or caches the value of its compute function on the
\* current values of what it reads, and a get or a peek of a molecule returned
\* the value derived from the current atom values.
C32_QuiescentFreshness ==
  ~everThrown =>
    /\ \A m \in Mols : isDirty[m] \/ cachedValue[m] = Fresh(m)
    /\ (last.op \in {"get", "peek"} /\ last.p \in Mols) => last.cand = Fresh(last.p)

\* a write changed the atom under the diamond that a wave reads: the three
\* molecules were recomputed and cache the values of the new atom value
C32_Witness ==
  /\ UserWrote("a") /\ Active("wD") /\ ~thrown
  /\ Computes("mA") >= 1 /\ Computes("mP") >= 1 /\ Computes("mD") >= 1
  /\ \A m \in {"mA", "mP", "mD"} : ~isDirty[m] /\ cachedValue[m] = Fresh(m)

\* a write changed the atom under a molecule that has no dependent: it is
\* dirty and keeps the value of the old atom value
C32_WitnessDirty ==
  /\ UserWrote("a") /\ isDirty["mP"] /\ cachedValue["mP"] # Undefined
  /\ cachedValue["mP"] # Fresh("mP")

\* the molecule whose value the effect of the wave hands to its mock
Mocked == [wD |-> "mD", wB |-> "mP"]

\* C33: every time the effect of a sync wave runs, the molecule value it
\* reads is the value of the compute functions on the current atom values
\* (in these programs the atoms do not change while a write is notifying).
C33_GlitchFreedom ==
  \A i \in DOMAIN trace :
    (trace[i].ev = "mock" /\ trace[i].p \in DOMAIN Mocked)
      => trace[i].cand = Fresh(Mocked[trace[i].p])

\* C34: a single atom write from outside the waves re-runs the effect of any
\* sync wave at most once, whatever the number of paths from the atom to it.
C34_SingleRerun ==
  (last.op = "set" /\ last.p \in Atoms) => \A w \in SyncWaves : Runs(w) <= 1

\* C35: a wave or a molecule is a dependent of a particle only if its own
\* effect or compute function reads that particle with get.
C35_NoSpuriousDependency ==
  \A p \in Readables : \A d \in SetElems(dependents[p]) :
    /\ d \in Waves => p \in GetsOf(d)
    /\ d \in Mols => p \in ReadsOf(d)

\* C36: the running flag of the batching scheduler is true only while a flush
\* is queued (or executing), also after an effect threw during a flush, and a
\* wave that is pending has a flush ahead of it.
C36_FlushRobustness ==
  /\ isRunning => \E i \in DOMAIN microtasks : microtasks[i] = FlushTask
  /\ pendingWaves # <<>> => isRunning

\* C37: when the notification of a dependent throws during an atom write,
\* the atom keeps its new value and every dependent it had is notified all
\* the same; hence, thrown or not, no molecule that is not dirty caches a
\* value computed from a previous value of the atom.
C37_ThrowingPass ==
  /\ (last.op = "set" /\ thrown) => value[last.p] = last.cand
  /\ \A i \in DOMAIN trace :
       (trace[i].ev = "write" /\ trace[i].old # trace[i].cand)
         => trace[i].deps \subseteq {trace[j].p : j \in PassOf(i)}
  /\ \A m \in Mols : isDirty[m] \/ cachedValue[m] = Fresh(m)

\* C38: whenever no operation is in progress and the synthetic atom has a
\* dependent, it holds a subscription and the store has its listener; and a
\* change the store announces is notified to every dependent the atom had.
C38_SubscribedWhileObserved ==
  [][/\ SetSize(dependents'["s"]) # 0 => (unsubscribeFn'["s"] /\ "s" \in subscribers')
     /\ (last'.op = "sendUpdate" /\ last'.old # last'.cand)
          => \A d \in SetElems(dependents["s"]) :
               \E i \in DOMAIN trace' :
                 trace'[i].ev = "notify" /\ trace'[i].p = d /\ trace'[i].by = "s"]_vars

\* the atom had lost its subscription; a wave read the molecule over it, whose
\* compute function read the atom, which subscribed again
C38_Witness ==
  /\ last.op = "wave" /\ last.p = "wM" /\ Events("subscribe", "s") # {}
  /\ Computes("mS") = 1 /\ SetHas(dependents["s"], "mS")
  /\ unsubscribeFn["s"] /\ subscribers = {"s"}

\* a change announced by the store reached the wave that reads the atom
C38_WitnessReached ==
  /\ last.op = "sendUpdate" /\ last.old # last.cand /\ storeMode = "change"
  /\ Active("wS") /\ "wM" \notin created /\ Runs("wS") = 1 /\ seen["wS"] = store
  /\ unsubscribeFn["s"] /\ subscribers = {"s"}

\* C39: the action is called once for each entry into the pending state.
\* State becomes pending only after a change of the trigger (or the
\* construction), so while state is pending and a call started since the last
\* change of the trigger exists, no step starts another call.
C39_OncePerPending ==
  [][(/\ Reaction /\ value["state"] = Pending
      /\ \E n \in DOMAIN promises : ~promises[n].superseded)
       => Len(promises') = Len(promises)]_vars

\* C40: once every wave that was constructed has been stopped, a write that
\* changes an atom runs no compute function.
C40_LazinessRestored ==
  (created # {} /\ created \subseteq stopped /\ UserWrote("a"))
    => \A m \in Mols : Computes(m) = 0

====
